---- MODULE Spec2Model ----
(***************************************************************************)
(* SecuredBank ai_service: the authentication / authorization core.       *)
(*                                                                         *)
(*   Spec          token service, access-control guard, login, refresh     *)
(*   SpecRegister  concurrent POST /register against the users collection  *)
(*   SpecRate      the RateLimiter middleware                              *)
(*                                                                         *)
(* Time is counted in ticks of 1/TicksPerSecond second, so that the        *)
(* truncation of datetimes to whole seconds (the JWT exp claim,            *)
(* timedelta.seconds) is a computation of the model and not the identity.  *)
(***************************************************************************)
EXTENDS Integers, Sequences, FiniteSets, TLC

VARIABLES
    users,      \* db.db.users: the set of stored documents
    nextId,     \* the next ObjectId the store hands out
    now,        \* the wall clock, in ticks
    jwtBuild,   \* which expiry comparison the installed jwt library makes
    tokens,     \* the token pair the client holds: the latest one issued
    resp,       \* the response to the request handled by the last step
    regs,       \* per in-flight registration: position and captured input
    requests,   \* RateLimiter.requests: client -> list of instants
    admitted,   \* history: per client, every instant the limiter admitted
    calls,      \* per in-flight middleware call: position and captured input
    bcryptBuild \* which behaviour the installed bcrypt has on long secrets

vars == <<users, nextId, now, jwtBuild, tokens, resp, regs, requests, admitted,
          calls, bcryptBuild>>

(***************************************************************************)
(* Bounds of the model.                                                    *)
(***************************************************************************)
TicksPerSecond == 2
MaxSkew == 2            \* ticks the clock may stand past each long jump
MaxRegs == 2            \* registrations in flight at once
RateSkew == 1           \* ticks the limiter's clock may stand past a jump
times == 2              \* RateLimiter(times=...): requests per window
MaxAdmitted == 3        \* requests one client gets admitted in a behaviour
MaxCalls == 2           \* middleware calls in flight at once

(***************************************************************************)
(* Program constants.                                                      *)
(***************************************************************************)
access_token_expire_minutes == 30
seconds == 60           \* RateLimiter(seconds=...): the window
refresh_token_expire_days == 7
HTTP_201_CREATED == 201
HTTP_400_BAD_REQUEST == 400
HTTP_401_UNAUTHORIZED == 401
HTTP_403_FORBIDDEN == 403
HTTP_404_NOT_FOUND == 404
HTTP_429_TOO_MANY_REQUESTS == 429
HTTP_500_INTERNAL_SERVER_ERROR == 500

jwt_secret_key == "your_jwt_secret_key_here"
OtherKey == "not_the_server_key"

SecondsPerDay == 24 * 60 * 60
AccessTTL == access_token_expire_minutes * 60 * TicksPerSecond
RefreshTTL == refresh_token_expire_days * SecondsPerDay * TicksPerSecond

NoResp == [op |-> "none"]
None == [none |-> TRUE]
Garbage == [garbage |-> TRUE]      \* a string that is no JWT

(***************************************************************************)
(* Python helpers.                                                         *)
(***************************************************************************)
\* dict.get(key, default)
Get(d, key, default) == IF key \in DOMAIN d THEN d[key] ELSE default

\* raise HTTPException(status_code=..., detail=...)
HTTPException(code, detail) ==
    [kind |-> "HTTPException", status_code |-> code, detail |-> detail]

\* any other exception type
Exception(name) == [kind |-> name]

Return(v) == [kind |-> "return", value |-> v]

(***************************************************************************)
(* The jwt library, as the code uses it.                                   *)
(***************************************************************************)
\* jwt.encode turns a datetime claim into whole seconds since the epoch
\* (timegm of the utctimetuple), dropping the fraction.
ToEpochSeconds(t) == t \div TicksPerSecond

jwt_encode(payload, key) ==
    [payload |-> [payload EXCEPT !.exp = ToEpochSeconds(payload.exp)],
     key |-> key]

\* The comparisons released versions of the library make between the exp
\* claim (whole seconds) and the clock:
\*   "float_le"  exp <= now, now a float        (expired at the very second)
\*   "float_lt"  exp <  now, now a float
\*   "int_lt"    exp <  now, now in whole seconds
JwtBuilds == {"float_le", "float_lt", "int_lt"}

MutExpBeforeNow(exp, t, build) == exp * TicksPerSecond + TicksPerSecond < t

ExpBeforeNow(exp, t, build) ==
    CASE build = "float_le" -> exp * TicksPerSecond <= t
      [] build = "float_lt" -> exp * TicksPerSecond < t
      [] OTHER -> exp < t \div TicksPerSecond

MutJwtDecode(token, key, t, build) ==
    IF token = Garbage \/ token.key # key \/ token \notin tokens
    THEN Exception("InvalidTokenError")
    ELSE IF ExpBeforeNow(token.payload.exp, t, build)
         THEN Exception("ExpiredSignatureError")
    ELSE Return(token.payload)

\* jwt.decode(token, key, algorithms=[...]): the signature first, then exp.
jwt_decode(token, key, t, build) ==
    IF token = Garbage THEN Exception("InvalidTokenError")
    ELSE IF token.key # key THEN Exception("InvalidTokenError")
    ELSE IF ExpBeforeNow(token.payload.exp, t, build)
         THEN Exception("ExpiredSignatureError")
    ELSE Return(token.payload)

(***************************************************************************)
(* The users collection.                                                   *)
(***************************************************************************)
\* find_one: the first stored document matching the filter, or None.
find_one(matching) ==
    IF matching = {} THEN None
    ELSE CHOOSE d \in matching : \A e \in matching : d.id <= e.id

\* {"$or": [{"username": u}, {"email": e}]}
ByUsernameOrEmail(u, e) == {d \in users : d.username = u \/ d.email = e}

\* {"username": u}
ByUsername(u) == {d \in users : d.username = u}

(***************************************************************************)
(* Password hasher (passlib CryptContext, scheme bcrypt).                  *)
(***************************************************************************)
\* A password is its sequence of characters (all of one byte here). bcrypt
\* digests the first 72 bytes of the secret only; what it does with a
\* longer secret depends on the installed bcrypt:
\*   "truncate"  the rest is silently dropped
\*   "raise"     ValueError (password cannot be longer than 72 bytes)
BcryptBuilds == {"truncate", "raise"}

BcryptInput(secret) ==
    SubSeq(secret, 1, IF Len(secret) < 72 THEN Len(secret) ELSE 72)

\* The hash string of a secret (the salt left out).
BcryptHash(secret) == [scheme |-> "bcrypt", digest |-> BcryptInput(secret)]

\* pwd_context.hash(secret)
pwd_context_hash(secret, build) ==
    IF build = "raise" /\ BcryptInput(secret) # secret
    THEN Exception("ValueError")
    ELSE Return(BcryptHash(secret))

\* pwd_context.verify(secret, hash): False for a hash of None, a raised
\* UnknownHashError for a string no configured scheme recognises.
pwd_context_verify(secret, hash, build) ==
    IF hash = None THEN Return(FALSE)
    ELSE IF hash.scheme # "bcrypt" THEN Exception("UnknownHashError")
    ELSE IF build = "raise" /\ BcryptInput(secret) # secret
    THEN Exception("ValueError")
    ELSE Return(hash = BcryptHash(secret))

get_password_hash(password) == pwd_context_hash(password, bcryptBuild)

verify_password(plain_password, hashed_password) ==
    pwd_context_verify(plain_password, hashed_password, bcryptBuild)

(***************************************************************************)
(* AuthService: token issue and verification.                              *)
(***************************************************************************)
\* create_access_token(data, expires_delta) at clock t; both branches of the
\* code add access_token_expire_minutes.
MutCreateAccessToken(data, t) ==
    jwt_encode([exp |-> t + RefreshTTL, type |-> "access"] @@ data,
               jwt_secret_key)

create_access_token(data, t) ==
    jwt_encode([exp |-> t + AccessTTL, type |-> "access"] @@ data,
               jwt_secret_key)

create_refresh_token(data, t) ==
    jwt_encode([exp |-> t + RefreshTTL, type |-> "refresh"] @@ data,
               jwt_secret_key)

\* authenticate_user looking at the account status before the password:
\* an inactive user is returned without verification.
MutAuthenticateUser(username, password) ==
    LET user == find_one(ByUsernameOrEmail(username, username))
    IN  IF user = None THEN Return(None)
        ELSE IF ~Get(user, "is_active", TRUE) THEN Return(user)
        ELSE IF "hashed_password" \notin DOMAIN user THEN Exception("KeyError")
        ELSE LET verified == verify_password(password, user.hashed_password)
             IN  IF verified.kind # "return" THEN verified
                 ELSE IF ~verified.value THEN Return(None)
                 ELSE Return(user)

\* authenticate_user: None, the user document, the KeyError of a document
\* that has no hashed_password field, or what verify_password raised.
authenticate_user(username, password) ==
    LET user == find_one(ByUsernameOrEmail(username, username))
    IN  IF user = None THEN Return(None)
        ELSE IF "hashed_password" \notin DOMAIN user THEN Exception("KeyError")
        ELSE LET verified == verify_password(password, user.hashed_password)
             IN  IF verified.kind # "return" THEN verified
                 ELSE IF ~verified.value THEN Return(None)
                 ELSE Return(user)

\* The roles refresh_token puts into the new access token.
MutRefreshRoles(user, payload) == Get(payload, "roles", {})

RefreshRoles(user, payload) == user.roles

\* AuthService.refresh_token at clock t.
refresh_token(token, t, build) ==
    LET dec == jwt_decode(token, jwt_secret_key, t, build)
    IN  IF dec.kind = "ExpiredSignatureError"
        THEN HTTPException(HTTP_401_UNAUTHORIZED, "Refresh token has expired")
        ELSE IF dec.kind = "InvalidTokenError"
        THEN HTTPException(HTTP_403_FORBIDDEN, "Invalid refresh token")
        ELSE LET payload == dec.value
                 user == find_one(ByUsername(payload.sub))
             IN  IF payload.type # "refresh"
                 THEN HTTPException(HTTP_403_FORBIDDEN, "Invalid token type")
                 ELSE IF user = None
                 THEN HTTPException(HTTP_404_NOT_FOUND, "User not found")
                 ELSE IF "roles" \notin DOMAIN user THEN Exception("KeyError")
                 ELSE Return([access_token |->
                                  create_access_token(
                                      [sub |-> user.username,
                                       roles |-> RefreshRoles(user, payload)], t),
                              refresh_token |->
                                  create_refresh_token([sub |-> user.username], t),
                              token_type |-> "bearer"])

(***************************************************************************)
(* JWTBearer: the access-control guard.                                    *)
(***************************************************************************)
verify_jwt(token, t, build) ==
    LET dec == jwt_decode(token, jwt_secret_key, t, build)
    IN  IF dec.kind = "ExpiredSignatureError"
        THEN HTTPException(HTTP_401_UNAUTHORIZED, "Token has expired")
        ELSE IF dec.kind = "InvalidTokenError"
        THEN HTTPException(HTTP_403_FORBIDDEN, "Invalid token")
        ELSE dec

\* any(role in user_roles for role in required_roles)
MutHasAnyRole(user_roles, required_roles) == required_roles \subseteq user_roles

HasAnyRole(user_roles, required_roles) ==
    \E role \in required_roles : role \in user_roles

\* The guard deciding by the roles and the status the store holds for the
\* token's subject.
MutJWTBearerCall(header, required_roles, t, build) ==
    IF header = None
    THEN HTTPException(HTTP_403_FORBIDDEN, "Not authenticated")
    ELSE IF header.scheme # "Bearer"
    THEN HTTPException(HTTP_403_FORBIDDEN, "Invalid authentication scheme.")
    ELSE LET res == verify_jwt(header.credentials, t, build)
         IN  IF res.kind # "return" THEN res
             ELSE LET user == find_one(ByUsername(res.value.sub))
                      stored == IF user = None \/ ~Get(user, "is_active", TRUE)
                                THEN {} ELSE Get(user, "roles", {})
                  IN  IF user = None
                         \/ ~Get(user, "is_active", TRUE)
                         \/ (required_roles # {}
                             /\ ~HasAnyRole(stored, required_roles))
                      THEN HTTPException(HTTP_403_FORBIDDEN,
                                         "Insufficient permissions")
                      ELSE res

\* JWTBearer.__call__ for an Authorization header (None when absent).
\* A return carries the payload stored in request.state.user.
JWTBearer_call(header, required_roles, t, build) ==
    IF header = None
    THEN HTTPException(HTTP_403_FORBIDDEN, "Not authenticated")
    ELSE IF header.scheme # "Bearer"
    THEN HTTPException(HTTP_403_FORBIDDEN, "Invalid authentication scheme.")
    ELSE LET res == verify_jwt(header.credentials, t, build)
         IN  IF res.kind # "return" THEN res
             ELSE IF required_roles # {}
                     /\ ~HasAnyRole(Get(res.value, "roles", {}), required_roles)
             THEN HTTPException(HTTP_403_FORBIDDEN, "Insufficient permissions")
             ELSE res

(***************************************************************************)
(* Documents of the users collection.                                      *)
(***************************************************************************)
\* The document create_user inserts.
UserDoc(id, username, email, password, roles) ==
    [id |-> id, username |-> username, email |-> email,
     hashed_password |-> BcryptHash(password),
     roles |-> roles, is_active |-> TRUE]

\* The document create_default_admin inserts.
AdminDoc(id, admin_email, admin_password) ==
    [id |-> id, fullnames |-> "System Administrator", username |-> "admin",
     email |-> admin_email, password |-> BcryptHash(admin_password),
     role |-> "ADMIN", isEmailVerified |-> TRUE, isKycVerified |-> TRUE]

DefaultAdminEmail == "admin@securedbank.com"
DefaultAdminPassword == <<"A", "d", "m", "i", "n", "@", "1", "2", "3">>
AlicePassword == <<"S", "t", "r", "0", "n", "g", "P", "a", "s", "s", "!">>
Passwords == {AlicePassword, <<"W", "r", "0", "n", "g", "P", "a", "s", "s", "!">>}
Identifiers == {"alice", "alice@bank.com", "admin", "nobody"}

(***************************************************************************)
(* Spec: requests against the token service and the guard.                 *)
(***************************************************************************)
\* The instants the clock visits: up to MaxSkew ticks after the start,
\* after one access lifetime and after one refresh lifetime.
Instants ==
    {a + base : a \in 0..MaxSkew, base \in {0, AccessTTL, RefreshTTL}}

\* Token strings a client can present: those issued, a string that is no
\* JWT, and tokens signed with a key that is not the server's.
ForgedTokens ==
    {jwt_encode([sub |-> "alice", roles |-> {"admin"},
                 exp |-> now + AccessTTL, type |-> "access"], OtherKey)}

\* The role lists and required-role lists requests are made with.
RoleSets == {{"user"}, {"admin", "user"}}
RequiredSets == {{}, {"admin"}, {"admin", "user"}}

\* The refresh token the last request used in a successful refresh: the
\* client still has it.
LastUsed ==
    IF resp.op = "refresh" /\ resp.status = 200 THEN {resp.token} ELSE {}

Presentable == tokens \cup LastUsed \cup {Garbage} \cup ForgedTokens

Headers ==
    {None, [scheme |-> "Basic", credentials |-> Garbage]}
    \cup {[scheme |-> "Bearer", credentials |-> tok] : tok \in Presentable}

RegUnchanged == UNCHANGED <<regs, nextId, bcryptBuild>>
RateUnchanged == UNCHANGED <<requests, admitted, calls, bcryptBuild>>

Init ==
    /\ users = {AdminDoc(1, DefaultAdminEmail, DefaultAdminPassword),
                UserDoc(2, "alice", "alice@bank.com", AlicePassword, {"user"})}
    /\ nextId = 3
    /\ now = 0
    /\ jwtBuild \in JwtBuilds
    /\ tokens = {}
    /\ resp = NoResp
    /\ regs = <<>>
    /\ requests = <<>>
    /\ admitted = <<>>
    /\ calls = <<>>
    /\ bcryptBuild = "truncate"

\* The clock moves on.
Advance ==
    /\ \E t \in Instants : t > now /\ now' = t
    /\ resp' = NoResp
    /\ UNCHANGED <<users, jwtBuild, tokens>>
    /\ RegUnchanged /\ RateUnchanged

\* POST /token: login_for_access_token.
login_for_access_token(identifier, password) ==
    LET auth == authenticate_user(identifier, password)
    IN  IF auth.kind # "return"
        THEN [status |-> HTTP_500_INTERNAL_SERVER_ERROR,
              body |-> "Internal Server Error"]
        ELSE IF auth.value = None
        THEN [status |-> HTTP_401_UNAUTHORIZED,
              body |-> "Incorrect username or password"]
        ELSE IF ~Get(auth.value, "is_active", TRUE)
        THEN [status |-> HTTP_400_BAD_REQUEST, body |-> "Inactive user"]
        ELSE LET user == auth.value
             IN  [status |-> 200,
                  body |-> [access_token |->
                                create_access_token(
                                    [sub |-> user.username,
                                     roles |-> Get(user, "roles", {})], now),
                            refresh_token |->
                                create_refresh_token([sub |-> user.username], now),
                            token_type |-> "bearer"]]

\* The client keeps the pair a 200 response carries.
Held(r) ==
    IF r.status = 200 THEN {r.body.access_token, r.body.refresh_token}
    ELSE tokens

Login ==
    /\ \E identifier \in Identifiers, password \in Passwords :
          LET r == login_for_access_token(identifier, password)
          IN  /\ resp' = [op |-> "login", identifier |-> identifier,
                          password |-> password] @@ r
              /\ tokens' = Held(r)
    /\ UNCHANGED <<users, now, jwtBuild>>
    /\ RegUnchanged /\ RateUnchanged

\* The guard with a lockout: a request it refuses deactivates the account
\* the token names.
MutAuthorize ==
    /\ \E header \in Headers, required_roles \in RequiredSets :
          LET r == JWTBearer_call(header, required_roles, now, jwtBuild)
              sub == IF header # None /\ header.credentials # Garbage
                     THEN header.credentials.payload.sub ELSE ""
          IN  /\ resp' = [op |-> "authorize", header |-> header,
                          required_roles |-> required_roles,
                          status |-> IF r.kind = "return" THEN 200
                                     ELSE r.status_code,
                          detail |-> IF r.kind = "return" THEN "" ELSE r.detail,
                          user |-> IF r.kind = "return" THEN r.value ELSE None]
              /\ users' = IF r.kind = "return" THEN users
                          ELSE {IF "is_active" \in DOMAIN d /\ d.username = sub
                                THEN [d EXCEPT !.is_active = FALSE] ELSE d
                                : d \in users}
    /\ UNCHANGED <<now, jwtBuild, tokens>>
    /\ RegUnchanged /\ RateUnchanged

\* A request through the guard JWTBearer(required_roles=...).
Authorize ==
    /\ \E header \in Headers, required_roles \in RequiredSets :
          LET r == JWTBearer_call(header, required_roles, now, jwtBuild)
          IN  resp' = [op |-> "authorize", header |-> header,
                       required_roles |-> required_roles,
                       status |-> IF r.kind = "return" THEN 200
                                  ELSE r.status_code,
                       detail |-> IF r.kind = "return" THEN "" ELSE r.detail,
                       user |-> IF r.kind = "return" THEN r.value ELSE None]
    /\ UNCHANGED <<users, now, jwtBuild, tokens>>
    /\ RegUnchanged /\ RateUnchanged

\* A direct call of AuthService.refresh_token.
\* The same with the route's own success status and the message in detail.
ServiceResponseOf(r, status_code) ==
    CASE r.kind = "return" -> [status |-> status_code, detail |-> ""]
      [] r.kind = "HTTPException" ->
             [status |-> r.status_code, detail |-> r.detail]
      [] OTHER -> [status |-> HTTP_500_INTERNAL_SERVER_ERROR,
                   detail |-> "Internal Server Error"]

ServiceResponse(r) ==
    CASE r.kind = "return" -> [status |-> 200, body |-> r.value]
      [] r.kind = "HTTPException" -> [status |-> r.status_code, body |-> r.detail]
      [] OTHER -> [status |-> HTTP_500_INTERNAL_SERVER_ERROR, body |-> r.kind]

Refresh ==
    /\ \E tok \in Presentable :
          LET r == ServiceResponse(refresh_token(tok, now, jwtBuild))
          IN  /\ resp' = [op |-> "refresh", token |-> tok, held |-> tokens] @@ r
              /\ tokens' = Held(r)
    /\ UNCHANGED <<users, now, jwtBuild>>
    /\ RegUnchanged /\ RateUnchanged

\* The attributes class AuthService defines.
AuthServiceAttrs ==
    {"verify_password", "get_password_hash", "create_user", "authenticate_user",
     "create_access_token", "create_refresh_token", "verify_token",
     "refresh_token"}

\* POST /token/refresh: refresh_access_token. It looks up
\* AuthService.refresh_tokens and turns every exception into a 401.
refresh_access_token(tok) ==
    LET r == IF "refresh_tokens" \in AuthServiceAttrs
             THEN refresh_token(tok, now, jwtBuild)
             ELSE Exception("AttributeError")
    IN  IF r.kind = "return" THEN [status |-> 200, body |-> r.value]
        ELSE [status |-> HTTP_401_UNAUTHORIZED,
              body |-> IF r.kind = "HTTPException" THEN r.detail ELSE r.kind]

PostTokenRefresh ==
    /\ \E tok \in Presentable :
          LET r == refresh_access_token(tok)
          IN  /\ resp' = [op |-> "post_refresh", token |-> tok] @@ r
              /\ tokens' = Held(r)
    /\ UNCHANGED <<users, now, jwtBuild>>
    /\ RegUnchanged /\ RateUnchanged

\* Credential Store update_roles_or_status(id, patch).
update_roles_or_status(user, roles, is_active) ==
    [user EXCEPT !.roles = roles, !.is_active = is_active]

UpdateRolesOrStatus ==
    /\ \E user \in {d \in users : "roles" \in DOMAIN d},
          roles \in RoleSets, is_active \in BOOLEAN :
          /\ update_roles_or_status(user, roles, is_active) # user
          /\ users' = (users \ {user})
                        \cup {update_roles_or_status(user, roles, is_active)}
    /\ resp' = NoResp
    /\ UNCHANGED <<now, jwtBuild, tokens>>
    /\ RegUnchanged /\ RateUnchanged

\* A user document disappears from the store.
RemoveUser ==
    /\ \E user \in {d \in users : "roles" \in DOMAIN d} : users' = users \ {user}
    /\ resp' = NoResp
    /\ UNCHANGED <<now, jwtBuild, tokens>>
    /\ RegUnchanged /\ RateUnchanged

(***************************************************************************)
(* Routes: /api/auth/me, /api/auth/protected-route and /.                  *)
(***************************************************************************)
\* What each route is declared with: its dependencies, and the parameters
\* of the endpoint function FastAPI fills in as keyword arguments.
MutRouteDependencies ==
    [me |-> {}, protected |-> {}, root |-> {"api_key_auth", "JWTBearer"},
     health |-> {"api_key_auth"}]

RouteDependencies ==
    [me |-> {}, protected |-> {}, root |-> {"api_key_auth"}, health |-> {}]

RouteParameters ==
    [me |-> {"request"}, protected |-> {}, root |-> {}, health |-> {}]

\* request.state as the endpoint finds it: state.user is set by
\* JWTBearer.__call__ where the route depends on it, and by nothing else.
RequestState(route, header) ==
    IF "JWTBearer" \in RouteDependencies[route]
    THEN LET r == JWTBearer_call(header, {}, now, jwtBuild)
         IN  IF r.kind = "return" THEN Return([user |-> r.value]) ELSE r
    ELSE Return(<<>>)

\* The fields response_model=UserResponse requires.
UserResponseFields ==
    {"username", "email", "id", "roles", "is_active", "created_at",
     "updated_at"}

\* FastAPI's validation of an endpoint's return value.
serialize_response(value, fields) ==
    IF fields \subseteq DOMAIN value THEN Return(value)
    ELSE Exception("ResponseValidationError")

\* GET /me: read_users_me(request).
read_users_me(request) ==
    IF "user" \notin DOMAIN request.state
    THEN HTTPException(HTTP_401_UNAUTHORIZED, "Could not validate credentials")
    ELSE LET user_data == request.state.user
         IN  serialize_response([username |-> user_data.sub,
                                 roles |-> Get(user_data, "roles", {})],
                                UserResponseFields)

GetMe ==
    /\ \E header \in Headers :
          LET state == RequestState("me", header)
              r == IF state.kind # "return" THEN state
                   ELSE read_users_me([state |-> state.value])
          IN  resp' = [op |-> "me", header |-> header] @@ ServiceResponse(r)
    /\ UNCHANGED <<users, now, jwtBuild, tokens>>
    /\ RegUnchanged /\ RateUnchanged

\* GET /protected-route: protected_route(), the endpoint itself.
protected_route ==
    Return([message |->
                "This is a protected route that requires admin role"])

\* require_roles(roles): the wrapper around the endpoint, called with the
\* keyword arguments kwargs.
require_roles(roles, kwargs) ==
    IF \/ "request" \notin DOMAIN kwargs
       \/ "user" \notin DOMAIN kwargs["request"].state
    THEN HTTPException(HTTP_401_UNAUTHORIZED, "Authentication required")
    ELSE IF /\ roles # {}
            /\ ~HasAnyRole(Get(kwargs["request"].state.user, "roles", {}),
                           roles)
    THEN HTTPException(HTTP_403_FORBIDDEN, "Insufficient permissions")
    ELSE protected_route

GetProtectedRoute ==
    /\ \E header \in Headers :
          LET state == RequestState("protected", header)
              kwargs == [p \in RouteParameters["protected"] |->
                             [state |-> state.value]]
              r == IF state.kind # "return" THEN state
                   ELSE require_roles({"admin"}, kwargs)
          IN  resp' = [op |-> "protected", header |-> header,
                       handler |-> (r = protected_route)]
                      @@ ServiceResponse(r)
    /\ UNCHANGED <<users, now, jwtBuild, tokens>>
    /\ RegUnchanged /\ RateUnchanged

\* settings.api_keys, and the X-API-Key headers requests come with.
api_keys == {"default-secure-key-123"}

ApiKeyHeaders ==
    {None} \cup {[key |-> k] : k \in {"default-secure-key-123", "invalid-key",
                                       "another-secure-key-456"}}

\* APIKeyHeader(auto_error=True): the header's value, or 403 when absent.
api_key_header(header) ==
    IF header = None
    THEN HTTPException(HTTP_403_FORBIDDEN, "Not authenticated")
    ELSE Return(header.key)

MutGetApiKey(api_key) == Return(api_key)

get_api_key(api_key) ==
    IF api_key \notin api_keys
    THEN HTTPException(HTTP_403_FORBIDDEN, "Invalid API Key")
    ELSE Return(api_key)

\* GET /: root(), behind the API key dependency.
root ==
    Return([message |-> "SecuredBank AI API is running"])

GetRoot ==
    /\ \E header \in ApiKeyHeaders :
          LET key == api_key_header(header)
              gate == IF "api_key_auth" \notin RouteDependencies["root"]
                      THEN Return(None)
                      ELSE IF key.kind # "return" THEN key
                      ELSE get_api_key(key.value)
              r == IF gate.kind # "return" THEN gate ELSE root
          IN  resp' = [op |-> "root", header |-> header,
                       handler |-> (r = root)] @@ ServiceResponse(r)
    /\ UNCHANGED <<users, now, jwtBuild, tokens>>
    /\ RegUnchanged /\ RateUnchanged

Next ==
    \/ Advance
    \/ Login
    \/ Authorize
    \/ Refresh
    \/ PostTokenRefresh
    \/ UpdateRolesOrStatus
    \/ RemoveUser
    \/ GetMe
    \/ GetProtectedRoute
    \/ GetRoot

Spec == Init /\ [][Next]_vars

(***************************************************************************)
(* Claims about Spec.                                                      *)
(***************************************************************************)
\* The token a guard request presented as a Bearer credential, if any.
IsBearer == resp.op = "authorize" /\ resp.header # None
            /\ resp.header.scheme = "Bearer"

\* tok carries the server's signature.
Signed(tok) == tok # Garbage /\ tok.key = jwt_secret_key

\* The clock reading of the exp claim, in ticks.
ExpTick(tok) == tok.payload.exp * TicksPerSecond

\* C1: the guard accepts only tokens whose type claim is "access": a
\* correctly signed, unexpired token of another type presented as a Bearer
\* token never yields an AuthContext, whatever required_roles is.
C1_GuardRejectsWrongType ==
    (/\ IsBearer
     /\ Signed(resp.header.credentials)
     /\ resp.header.credentials.payload.type # "access"
     /\ now < ExpTick(resp.header.credentials))
    => (resp.status # 200 /\ resp.user = None)

\* C2 as stated: a correctly signed access token fails with Expired if
\* now > expires_at and does not fail with Expired if now <= expires_at.
GuardExpired == resp.status = HTTP_401_UNAUTHORIZED
                /\ resp.detail = "Token has expired"

C2_ExpiredIffAfterExp ==
    (IsBearer /\ Signed(resp.header.credentials)
     /\ resp.header.credentials.payload.type = "access")
    => (GuardExpired <=> now > ExpTick(resp.header.credentials))

\* C2 amended: a correctly signed access token fails with Expired whenever
\* now >= expires_at + 1s and never fails with Expired when now < expires_at
\* (within the second that starts at expires_at the installed jwt library
\* decides).
C2_ExpiredOutsideBoundarySecond ==
    (IsBearer /\ Signed(resp.header.credentials)
     /\ resp.header.credentials.payload.type = "access")
    => /\ now >= ExpTick(resp.header.credentials) + TicksPerSecond
            => GuardExpired
       /\ now < ExpTick(resp.header.credentials) => ~GuardExpired

C2_Witness ==
    /\ IsBearer /\ Signed(resp.header.credentials)
    /\ resp.header.credentials.payload.type = "access"
    /\ now = ExpTick(resp.header.credentials) + TicksPerSecond
    /\ GuardExpired

\* C3: with a valid access token, authorize succeeds iff required_roles is
\* empty or the token's roles intersect it, and otherwise fails with
\* Forbidden (insufficient permissions).
ValidAccess(tok) ==
    /\ Signed(tok) /\ tok.payload.type = "access"
    /\ ~ExpBeforeNow(tok.payload.exp, now, jwtBuild)

C3_AnyRequiredRoleSuffices ==
    (IsBearer /\ ValidAccess(resp.header.credentials))
    => LET roles == resp.header.credentials.payload.roles
           allowed == resp.required_roles = {}
                      \/ roles \cap resp.required_roles # {}
       IN  /\ allowed => (resp.status = 200
                          /\ resp.user = resp.header.credentials.payload)
           /\ ~allowed => (resp.status = HTTP_403_FORBIDDEN
                           /\ resp.detail = "Insufficient permissions"
                           /\ resp.user = None)

C3_Witness ==
    /\ IsBearer /\ ValidAccess(resp.header.credentials)
    /\ resp.required_roles = {"admin", "user"}
    /\ resp.header.credentials.payload.roles = {"user"}
    /\ resp.status = 200

\* C4: the access token a refresh returns carries the roles the user has in
\* the store at the time of the refresh.
C4_RefreshUsesCurrentRoles ==
    (resp.op = "refresh" /\ resp.status = 200)
    => LET user == find_one(ByUsername(resp.body.access_token.payload.sub))
       IN  /\ user # None
           /\ resp.body.access_token.payload.roles = user.roles
           /\ resp.body.access_token.payload.sub = resp.token.payload.sub

\* A refresh that succeeded with the refresh token of a pair whose access
\* token carries other roles than the user has now.
C4_Witness ==
    /\ resp.op = "refresh" /\ resp.status = 200
    /\ resp.token \in resp.held
    /\ \E a \in resp.held :
          /\ a.payload.type = "access"
          /\ a.payload.roles # resp.body.access_token.payload.roles

\* C5: refresh with a well-formed, unexpired refresh token fails with
\* SubjectNotFound when the subject is not stored and with SubjectInactive
\* when the subject has is_active = false; neither issues a token.
C5_RefreshRejectsMissingOrInactive ==
    (/\ resp.op = "refresh"
     /\ Signed(resp.token) /\ resp.token.payload.type = "refresh"
     /\ now < ExpTick(resp.token))
    => LET user == find_one(ByUsername(resp.token.payload.sub))
       IN  /\ user = None => resp.status = HTTP_404_NOT_FOUND
           /\ (user # None /\ ~user.is_active)
                 => resp.status \notin {200, HTTP_404_NOT_FOUND}

\* C6: POST /token/refresh answers 200 with a new pair when the token is
\* correctly signed, unexpired, of type refresh and its subject exists, 401
\* for an invalid, expired or wrong-type token, 404 when the subject is gone.
C6_RefreshEndpointStatuses ==
    resp.op = "post_refresh"
    => IF ~Signed(resp.token) \/ resp.token.payload.type # "refresh"
          \/ ExpBeforeNow(resp.token.payload.exp, now, jwtBuild)
       THEN resp.status = HTTP_401_UNAUTHORIZED
       ELSE IF find_one(ByUsername(resp.token.payload.sub)) = None
       THEN resp.status = HTTP_404_NOT_FOUND
       ELSE resp.status = 200

(***************************************************************************)
(* SpecRegister: POST /register, its two store calls interleaved with      *)
(* those of other registrations and of a starting worker's admin seeding.  *)
(***************************************************************************)
\* create_indexes: the fields of users that carry a unique index.
MutUniqueIndexes == {}

UniqueIndexes == {"username", "email"}

\* insert_one raises DuplicateKeyError when a unique index already holds
\* one of the document's values.
DuplicateKey(doc) ==
    \E d \in users, f \in UniqueIndexes : d[f] = doc[f]

RegUsernames == {"alice", "bob"}
RegEmails == {"alice@bank.com", "bob@bank.com"}
RegRoles == {{"user"}}
AdminEmails == {DefaultAdminEmail, "root@securedbank.com"}

Procs == 1..MaxRegs
Seeder == 0
IdleProc == [pc |-> "idle"]
InFlight(p) == regs[p].pc \in {"find", "insert"}

AuthUnchanged == UNCHANGED <<now, jwtBuild, tokens, resp>>

InitRegister ==
    /\ users = {AdminDoc(1, DefaultAdminEmail, DefaultAdminPassword)}
    /\ nextId = 2
    /\ now = 0
    /\ jwtBuild = "float_le"
    /\ tokens = {}
    /\ resp = NoResp
    /\ regs = [p \in {Seeder} \cup Procs |-> IdleProc]
    /\ requests = <<>>
    /\ admitted = <<>>
    /\ calls = <<>>
    /\ bcryptBuild = "truncate"

\* register_user is entered with a validated UserCreate.
RegStart(p) ==
    /\ regs[p].pc = "idle"
    /\ \E username \in RegUsernames, email \in RegEmails, roles \in RegRoles :
          regs' = [regs EXCEPT ![p] =
                     [pc |-> "find", username |-> username, email |-> email,
                      roles |-> roles,
                      with |-> {q \in Procs : InFlight(q)},
                      fresh |-> ByUsernameOrEmail(username, email) = {}]]
    /\ UNCHANGED <<users, nextId>>
    /\ AuthUnchanged /\ RateUnchanged

\* create_user: await find_one({"$or": [username, email]}); an existing
\* document ends the request with the 400 HTTPException.
RegFind(p) ==
    /\ regs[p].pc = "find"
    /\ LET existing_user ==
               find_one(ByUsernameOrEmail(regs[p].username, regs[p].email))
       IN  regs' = [regs EXCEPT ![p] =
                      IF existing_user # None
                      THEN [pc |-> "done", status |-> HTTP_400_BAD_REQUEST,
                            detail |-> "Username or email already registered",
                            found |-> TRUE, inserted |-> {}] @@ @
                      ELSE [pc |-> "insert"] @@ @]
    /\ UNCHANGED <<users, nextId>>
    /\ AuthUnchanged /\ RateUnchanged

\* What register_user returns for the created user, validated against
\* response_model=UserResponse after the handler's try block is left.
register_user_response(user) ==
    serialize_response([id |-> user.id, username |-> user.username,
                        email |-> user.email, roles |-> user.roles,
                        is_active |-> user.is_active],
                       UserResponseFields)

\* create_user: await insert_one(user). A DuplicateKeyError reaches
\* register_user's `except Exception` and becomes a 500 with str(e).
RegInsert(p) ==
    /\ regs[p].pc = "insert"
    /\ LET user == UserDoc(nextId, regs[p].username, regs[p].email,
                           AlicePassword, regs[p].roles)
       IN  IF DuplicateKey(user)
           THEN /\ regs' = [regs EXCEPT ![p] =
                              [pc |-> "done",
                               status |-> HTTP_500_INTERNAL_SERVER_ERROR,
                               detail |-> "DuplicateKeyError",
                               found |-> FALSE, inserted |-> {}] @@ @]
                /\ UNCHANGED <<users, nextId>>
           ELSE /\ regs' = [regs EXCEPT ![p] =
                              [pc |-> "done", found |-> FALSE,
                               inserted |-> {user}]
                              @@ ServiceResponseOf(register_user_response(user),
                                                   HTTP_201_CREATED)
                              @@ @]
                /\ users' = users \cup {user}
                /\ nextId' = nextId + 1
    /\ AuthUnchanged /\ RateUnchanged

\* create_default_admin of a starting worker: find_one({"email", "role"}).
SeedFind ==
    /\ regs[Seeder].pc = "idle"
    /\ \E admin_email \in AdminEmails :
          LET existing_admin ==
                  find_one({d \in users : /\ d.email = admin_email
                                          /\ Get(d, "role", None) = "ADMIN"})
          IN  /\ existing_admin = None
              /\ regs' = [regs EXCEPT ![Seeder] =
                            [pc |-> "seed", email |-> admin_email]]
    /\ UNCHANGED <<users, nextId>>
    /\ AuthUnchanged /\ RateUnchanged

\* create_default_admin: insert_one(admin_data); an exception is logged.
SeedInsert ==
    /\ regs[Seeder].pc = "seed"
    /\ LET admin_data == AdminDoc(nextId, regs[Seeder].email,
                                  DefaultAdminPassword)
       IN  IF DuplicateKey(admin_data)
           THEN UNCHANGED <<users, nextId>>
           ELSE users' = users \cup {admin_data} /\ nextId' = nextId + 1
    /\ regs' = [regs EXCEPT ![Seeder] = IdleProc]
    /\ AuthUnchanged /\ RateUnchanged

NextRegister ==
    \/ \E p \in Procs : RegStart(p)
    \/ \E p \in Procs : RegFind(p)
    \/ \E p \in Procs : RegInsert(p)
    \/ SeedFind
    \/ SeedInsert

SpecRegister == InitRegister /\ [][NextRegister]_vars

(***************************************************************************)
(* Claims about SpecRegister.                                              *)
(***************************************************************************)
Done(p) == regs[p].pc = "done"

\* p and q were in flight at the same time.
Concurrent(p, q) ==
    /\ regs[p].pc # "idle" /\ regs[q].pc # "idle"
    /\ (q \in regs[p].with \/ p \in regs[q].with)

\* C7: of two concurrent registrations with the same username (or the same
\* email), neither present before, exactly one ends with 201 and the other
\* with 409, and neither with anything else.
C7_ConcurrentRegistrations ==
    \A p \in Procs, q \in Procs :
       (/\ p # q /\ Done(p) /\ Done(q) /\ Concurrent(p, q)
        /\ regs[p].fresh /\ regs[q].fresh
        /\ (regs[p].username = regs[q].username
            \/ regs[p].email = regs[q].email))
       => \/ regs[p].status = HTTP_201_CREATED /\ regs[q].status = 409
          \/ regs[p].status = 409 /\ regs[q].status = HTTP_201_CREATED

\* C8: no two stored users share a username, and no two share an email.
C8_UsernameAndEmailUnique ==
    \A d \in users, e \in users :
       d # e => (d.username # e.username /\ d.email # e.email)

\* Two registrations of one username both passed the existence check; one
\* inserted and the index refused the other.
C8_Witness ==
    \E p \in Procs, q \in Procs :
       /\ p # q /\ Done(p) /\ Done(q)
       /\ regs[p].username = regs[q].username
       /\ regs[p].inserted # {}
       /\ regs[q].inserted = {}
       /\ regs[q].status = HTTP_500_INTERNAL_SERVER_ERROR
       /\ Cardinality(ByUsername(regs[p].username)) = 1

\* C9: a registration ends with 201 and one new active user stored when
\* neither its username nor its email was present at the existence check,
\* and with 409 and nothing stored when either was.
C9_RegisterStatuses ==
    \A p \in Procs :
       Done(p)
       => IF regs[p].found
          THEN regs[p].status = 409 /\ regs[p].inserted = {}
          ELSE /\ regs[p].status = HTTP_201_CREATED
               /\ \E d \in regs[p].inserted :
                     /\ d \in users /\ d.is_active
                     /\ d.username = regs[p].username
                     /\ d.email = regs[p].email

(***************************************************************************)
(* SpecRate: the RateLimiter middleware.                                   *)
(***************************************************************************)
Clients == {"10.0.0.1", "10.0.0.2"}

\* timedelta.seconds of a difference of d ticks: the seconds field of the
\* normalized (days, seconds, microseconds), not the total.
TimedeltaSeconds(d) ==
    (d % (SecondsPerDay * TicksPerSecond)) \div TicksPerSecond

\* The list comprehension that drops old timestamps.
Retained(list, current_time) ==
    SelectSeq(list, LAMBDA t : TimedeltaSeconds(current_time - t) < seconds)

\* len(self.requests[client_ip]) >= self.times
MutOverLimit(list) == Len(list) > times

OverLimit(list) == Len(list) >= times

\* The limiter recording the request before it decides.
MutRateLimiterCall(client_ip, current_time) ==
    LET list == IF client_ip \in DOMAIN requests THEN requests[client_ip]
                ELSE <<>>
        kept == Retained(list, current_time)
    IN  [requests |-> (client_ip :> Append(kept, current_time)) @@ requests,
         limited |-> OverLimit(kept)]

\* RateLimiter.__call__ up to `await call_next`: the new self.requests and
\* whether the request is answered 429.
RateLimiter_call(client_ip, current_time) ==
    LET list == IF client_ip \in DOMAIN requests THEN requests[client_ip]
                ELSE <<>>
        kept == Retained(list, current_time)
    IN  IF OverLimit(kept)
        THEN [requests |-> (client_ip :> kept) @@ requests, limited |-> TRUE]
        ELSE [requests |-> (client_ip :> Append(kept, current_time)) @@ requests,
              limited |-> FALSE]

\* The instants the limiter's clock visits: up to RateSkew ticks after the
\* start, after half a second less than one window, and after one day.
RateInstants ==
    {a + base : a \in 0..RateSkew,
                base \in {0, seconds * TicksPerSecond - 1,
                          SecondsPerDay * TicksPerSecond}}

InitRate ==
    /\ users = {AdminDoc(1, DefaultAdminEmail, DefaultAdminPassword)}
    /\ nextId = 2
    /\ now = 0
    /\ jwtBuild = "float_le"
    /\ tokens = {}
    /\ resp = NoResp
    /\ regs = <<>>
    /\ requests = <<>>
    /\ admitted = [c \in Clients |-> <<>>]
    /\ calls = <<>>
    /\ bcryptBuild = "truncate"

RateAdvance ==
    /\ \E t \in RateInstants : t > now /\ now' = t
    /\ resp' = NoResp
    /\ UNCHANGED <<users, jwtBuild, tokens, requests, admitted, calls>>
    /\ RegUnchanged

\* One request of a client passes the middleware.
RateRequest ==
    /\ \E client_ip \in Clients :
          LET r == RateLimiter_call(client_ip, now)
          IN  /\ Len(admitted[client_ip]) < MaxAdmitted
              /\ requests' = r.requests
              /\ admitted' = IF r.limited THEN admitted
                             ELSE [admitted EXCEPT ![client_ip] = Append(@, now)]
              /\ resp' = [op |-> "rate", client |-> client_ip,
                          before |-> Len(admitted[client_ip]),
                          status |-> IF r.limited
                                     THEN HTTP_429_TOO_MANY_REQUESTS ELSE 200]
    /\ UNCHANGED <<users, now, jwtBuild, tokens, calls>>
    /\ RegUnchanged

NextRate ==
    \/ RateAdvance
    \/ RateRequest

SpecRate == InitRate /\ [][NextRate]_vars

(***************************************************************************)
(* Claims about SpecRate.                                                  *)
(***************************************************************************)
Window == seconds * TicksPerSecond

\* How many of the instants in list lie less than one window before t.
InWindow(list, t) ==
    Cardinality({i \in 1..Len(list) : list[i] <= t /\ t - list[i] < Window})

C11_NoRejectionUnderQuota ==
    (resp.op = "rate" /\ resp.status = HTTP_429_TOO_MANY_REQUESTS)
    => InWindow(admitted[resp.client], now) >= times

(***************************************************************************)
(* Claims on Spec: login, the routes and the token life.                   *)
(***************************************************************************)
\* The stored documents a login identifier names, and whether a password
\* verifies against the hash a document stores.
StoredAs(identifier) ==
    {d \in users : d.username = identifier \/ d.email = identifier}

PasswordVerifies(user, password) ==
    /\ "hashed_password" \in DOMAIN user
    /\ verify_password(password, user.hashed_password) = Return(TRUE)

\* C14: POST /token with a stored username or email answers 200 with an
\* access token, a refresh token and token_type "bearer" exactly when the
\* password verifies and the user is active, the access token carrying the
\* stored username and roles; an unknown identifier or a wrong password is
\* answered 401, an inactive user 400, and then no token is issued.
C14_LoginOutcomes ==
    resp.op = "login" =>
        IF StoredAs(resp.identifier) = {}
        THEN resp.status = HTTP_401_UNAUTHORIZED
        ELSE LET user == find_one(StoredAs(resp.identifier))
             IN  IF ~PasswordVerifies(user, resp.password)
                 THEN resp.status = HTTP_401_UNAUTHORIZED
                 ELSE IF ~Get(user, "is_active", TRUE)
                 THEN resp.status = HTTP_400_BAD_REQUEST
                 ELSE /\ resp.status = 200
                      /\ resp.body.token_type = "bearer"
                      /\ resp.body.access_token.payload.type = "access"
                      /\ resp.body.access_token.payload.sub = user.username
                      /\ resp.body.access_token.payload.roles = user.roles
                      /\ resp.body.refresh_token.payload.type = "refresh"

\* The Bearer token a request to a route presented, when it is one the
\* guard has to accept: signed by the server, of type access, not expired.
PresentsValidAccess ==
    /\ resp.header # None /\ resp.header.scheme = "Bearer"
    /\ Signed(resp.header.credentials)
    /\ resp.header.credentials.payload.type = "access"
    /\ now < ExpTick(resp.header.credentials)

\* C15: GET /me answers 200 with the username and roles of the presented
\* token whenever the request carries a valid unexpired access token, and
\* 401 when the token is missing.
C15_MeReturnsTokenIdentity ==
    resp.op = "me" =>
        /\ PresentsValidAccess =>
              /\ resp.status = 200
              /\ resp.body.username = resp.header.credentials.payload.sub
              /\ resp.body.roles = resp.header.credentials.payload.roles
        /\ resp.header = None => resp.status = HTTP_401_UNAUTHORIZED

\* C16: on /protected-route (required roles {admin}) a valid access token
\* carrying admin reaches the handler, a valid one without it is answered
\* 403, a request without a token 401, and the handler does not run in the
\* latter two cases.
C16_ProtectedRouteOutcomes ==
    resp.op = "protected" =>
        /\ (PresentsValidAccess
            /\ "admin" \in resp.header.credentials.payload.roles)
              => (resp.status = 200 /\ resp.handler)
        /\ (PresentsValidAccess
            /\ "admin" \notin resp.header.credentials.payload.roles)
              => (resp.status = HTTP_403_FORBIDDEN /\ ~resp.handler)
        /\ resp.header = None
              => (resp.status = HTTP_401_UNAUTHORIZED /\ ~resp.handler)

TokenFails(tok) ==
    \/ ~Signed(tok)
    \/ now >= ExpTick(tok) + TicksPerSecond

\* C17: every kind of failure has one status at every endpoint: a missing,
\* malformed, badly signed or expired token and bad credentials are
\* answered 401, an insufficient role and a bad API key 403; the guard and
\* the refresh endpoint answer the same token failure alike.
C17_OneStatusPerFailure ==
    /\ (resp.op = "authorize" /\ resp.header = None)
          => resp.status = HTTP_401_UNAUTHORIZED
    /\ (IsBearer /\ TokenFails(resp.header.credentials))
          => resp.status = HTTP_401_UNAUTHORIZED
    /\ (resp.op = "post_refresh" /\ TokenFails(resp.token))
          => resp.status = HTTP_401_UNAUTHORIZED
    /\ (resp.op = "login" /\ StoredAs(resp.identifier) = {})
          => resp.status = HTTP_401_UNAUTHORIZED
    /\ (IsBearer /\ ValidAccess(resp.header.credentials)
        /\ resp.required_roles # {}
        /\ resp.required_roles \cap resp.header.credentials.payload.roles = {})
          => resp.status = HTTP_403_FORBIDDEN
    /\ (resp.op = "root" /\ resp.header # None
        /\ resp.header.key \notin api_keys)
          => resp.status = HTTP_403_FORBIDDEN

\* A 200 answer to a login or a service refresh, which issues a pair.
Issues == resp.op \in {"login", "refresh"} /\ resp.status = 200

\* C19 as stated: an access token issued at now has type access and
\* expires_at = now + access_ttl, a refresh token has type refresh and
\* expires_at = now + refresh_ttl, and verifying either before expires_at
\* returns the subject (and roles) it was issued with.
C19_ExpiresAtNowPlusTTL ==
    /\ Issues =>
          /\ resp.body.access_token.payload.type = "access"
          /\ ExpTick(resp.body.access_token) = now + AccessTTL
          /\ resp.body.refresh_token.payload.type = "refresh"
          /\ ExpTick(resp.body.refresh_token) = now + RefreshTTL
    /\ (IsBearer /\ resp.header.credentials \in tokens
        /\ now < ExpTick(resp.header.credentials)
        /\ resp.required_roles = {}) =>
          /\ resp.status = 200
          /\ resp.user.sub = resp.header.credentials.payload.sub

\* C19, amended: as above, with expires_at the whole second that now + ttl
\* falls in: now + ttl - 1s < expires_at <= now + ttl; the issued subject
\* and roles are the stored user's and come back unchanged from a
\* verification before expires_at.
C19_ExpiresAtWholeSecond ==
    /\ Issues =>
          LET a == resp.body.access_token
              r == resp.body.refresh_token
          IN  /\ a.payload.type = "access"
              /\ ExpTick(a) <= now + AccessTTL
              /\ now + AccessTTL < ExpTick(a) + TicksPerSecond
              /\ r.payload.type = "refresh"
              /\ ExpTick(r) <= now + RefreshTTL
              /\ now + RefreshTTL < ExpTick(r) + TicksPerSecond
              /\ a.payload.sub = r.payload.sub
              /\ \E user \in users : /\ user.username = a.payload.sub
                                     /\ user.roles = a.payload.roles
    /\ (IsBearer /\ resp.header.credentials \in tokens
        /\ now < ExpTick(resp.header.credentials)
        /\ resp.required_roles = {}) =>
          /\ resp.status = 200
          /\ resp.user.sub = resp.header.credentials.payload.sub
          /\ resp.header.credentials.payload.type = "access"
                => resp.user.roles = resp.header.credentials.payload.roles

C19_Witness ==
    /\ resp.op = "login" /\ resp.status = 200
    /\ now % TicksPerSecond # 0
    /\ ExpTick(resp.body.access_token) < now + AccessTTL

\* The outcome of verifying tok at clock reading t.
VerifyOutcome(tok, t) == jwt_decode(tok, jwt_secret_key, t, jwtBuild).kind

\* C18: a token only goes from valid to expired. Verification depends on
\* the token and the clock alone: a token that fails as expired fails so at
\* every later clock reading, no request or store update changes the
\* outcome at an unchanged clock, and an unexpired token is never refused
\* as a token -- in particular a refresh token already used in a
\* successful refresh is accepted again by a later refresh.
C18_TokenLife ==
    /\ []((resp.op = "refresh" /\ Signed(resp.token)
           /\ resp.token.payload.type = "refresh"
           /\ now < ExpTick(resp.token))
          => resp.status \notin {HTTP_401_UNAUTHORIZED, HTTP_403_FORBIDDEN})
    /\ []((IsBearer /\ Signed(resp.header.credentials)
           /\ now < ExpTick(resp.header.credentials)
           /\ resp.required_roles = {})
          => resp.status = 200)
    /\ [][\A tok \in tokens \cup LastUsed :
            /\ now' >= now
            /\ VerifyOutcome(tok, now) = "ExpiredSignatureError"
                  => VerifyOutcome(tok, now') = "ExpiredSignatureError"
            /\ now' = now => VerifyOutcome(tok, now') = VerifyOutcome(tok, now)
         ]_vars

\* A refresh token is accepted although the previous request already used
\* it in a successful refresh that returned a different pair.
C18_Witness ==
    /\ resp.op = "refresh" /\ resp.status = 200
    /\ resp.token \notin resp.held
    /\ resp.token # resp.body.refresh_token

(***************************************************************************)
(* SpecMiddleware: RateLimiter.__call__ statement by statement, several    *)
(* calls in flight on one event loop.                                      *)
(***************************************************************************)
Slots == 1..MaxCalls
IdleCall == [pc |-> "idle"]

\* The routes requests go to, and what call_next runs for each of them
\* behind the limiter: the route's dependencies and its endpoint.
Routes == {"/", "/api/auth/token"}

Downstream(route) ==
    IF route = "/" THEN <<"get_api_key", "root">>
    ELSE <<"authenticate_user", "login_for_access_token">>

\* The statements of __call__ in program order: each one's successor.
MutProgramOrder ==
    [prune |-> "call_next", call_next |-> "check", check |-> "append",
     append |-> "return"]

ProgramOrder ==
    [prune |-> "check", check |-> "append", append |-> "call_next",
     call_next |-> "return"]

\* The statements at which the coroutine awaits, letting other calls run.
MutAwaits == {"check", "call_next"}

Awaits == {"call_next"}

\* One statement of the call c on the limiter state st = [requests,
\* admitted]: the call after it and the state after it.
Statement(c, st) ==
    LET list == IF c.client_ip \in DOMAIN st.requests
                THEN st.requests[c.client_ip] ELSE <<>>
        log == Append(c.log, c.pc)
        next == IF c.pc \in DOMAIN ProgramOrder THEN ProgramOrder[c.pc]
                ELSE "done"
    IN  CASE c.pc = "prune" ->
               [call |-> [c EXCEPT !.pc = next, !.log = log],
                requests |-> (c.client_ip :> Retained(list, c.current_time))
                               @@ st.requests,
                admitted |-> st.admitted]
          [] c.pc = "check" ->
               [call |-> IF OverLimit(list)
                         THEN [c EXCEPT !.pc = "done", !.log = log,
                                        !.status = HTTP_429_TOO_MANY_REQUESTS]
                         ELSE [c EXCEPT !.pc = next, !.log = log],
                requests |-> st.requests,
                admitted |-> st.admitted]
          [] c.pc = "append" ->
               [call |-> [c EXCEPT !.pc = next, !.log = log],
                requests |-> (c.client_ip :> Append(list, c.current_time))
                               @@ st.requests,
                admitted |-> [st.admitted EXCEPT ![c.client_ip] =
                                  Append(@, c.current_time)]]
          [] c.pc = "call_next" ->
               [call |-> [c EXCEPT !.pc = next,
                                   !.log = log \o Downstream(c.route)],
                requests |-> st.requests,
                admitted |-> st.admitted]
          [] OTHER ->
               [call |-> [c EXCEPT !.pc = "done", !.log = log],
                requests |-> st.requests,
                admitted |-> st.admitted]

\* The event loop runs a call until it awaits or returns.
RECURSIVE RunCall(_, _)
RunCall(c, st) ==
    LET r == Statement(c, st)
    IN  IF r.call.pc = "done" \/ c.pc \in Awaits THEN r
        ELSE RunCall(r.call, [requests |-> r.requests, admitted |-> r.admitted])

\* The step's effect: a returned call leaves its slot and is answered.
Scheduled(slot, c) ==
    LET r == RunCall(c, [requests |-> requests, admitted |-> admitted])
    IN  /\ requests' = r.requests
        /\ admitted' = r.admitted
        /\ IF r.call.pc = "done"
           THEN /\ calls' = [calls EXCEPT ![slot] = IdleCall]
                /\ resp' = [op |-> "call", client |-> c.client_ip,
                            route |-> c.route,
                            current_time |-> c.current_time,
                            status |-> r.call.status, log |-> r.call.log]
           ELSE /\ calls' = [calls EXCEPT ![slot] = r.call]
                /\ resp' = NoResp

InitMiddleware ==
    /\ users = {AdminDoc(1, DefaultAdminEmail, DefaultAdminPassword)}
    /\ nextId = 2
    /\ now = 0
    /\ jwtBuild = "float_le"
    /\ tokens = {}
    /\ resp = NoResp
    /\ regs = <<>>
    /\ requests = <<>>
    /\ admitted = [c \in Clients |-> <<>>]
    /\ calls = [slot \in Slots |-> IdleCall]
    /\ bcryptBuild = "truncate"

\* The instants the clock visits here: the start, the last tick inside
\* the window that starts there, and the first tick after it.
MiddlewareInstants ==
    {0, seconds * TicksPerSecond - 1, seconds * TicksPerSecond}

MiddlewareAdvance ==
    /\ \E t \in MiddlewareInstants : t > now /\ now' = t
    /\ resp' = NoResp
    /\ UNCHANGED <<users, jwtBuild, tokens, requests, admitted, calls>>
    /\ RegUnchanged

\* The number of requests admitted so far, over all clients.
AdmittedInAll ==
    Cardinality({p \in Clients \X (1..(MaxAdmitted + MaxCalls)) :
                    p[2] <= Len(admitted[p[1]])})

\* A request arrives and its call starts running.
CallStart(slot) ==
    /\ calls[slot] = IdleCall
    /\ \A lower \in Slots : lower < slot => calls[lower] # IdleCall
    /\ \E client_ip \in Clients, route \in Routes :
          /\ AdmittedInAll < MaxAdmitted
          /\ Scheduled(slot, [pc |-> "prune", client_ip |-> client_ip,
                              route |-> route, current_time |-> now,
                              status |-> 200, log |-> <<>>])
    /\ UNCHANGED <<users, now, jwtBuild, tokens>>
    /\ RegUnchanged

\* A suspended call is resumed.
CallResume(slot) ==
    /\ calls[slot] # IdleCall
    /\ Scheduled(slot, calls[slot])
    /\ UNCHANGED <<users, now, jwtBuild, tokens>>
    /\ RegUnchanged

NextMiddleware ==
    \/ MiddlewareAdvance
    \/ \E slot \in Slots : CallStart(slot)
    \/ \E slot \in Slots : CallResume(slot)

SpecMiddleware == InitMiddleware /\ [][NextMiddleware]_vars

(***************************************************************************)
(* Claims about SpecMiddleware.                                            *)
(***************************************************************************)
\* C12: pruning, counting and appending to one client's window is atomic
\* with respect to concurrent requests: the stored window never holds more
\* than `times` instants and every admitted request found fewer than
\* `times` admissions less than one window before it, so of two requests
\* in flight with one slot left at most one is admitted, whichever way the
\* calls interleave.
C12_WindowUpdateAtomic ==
    \A c \in Clients :
        /\ c \in DOMAIN requests => Len(requests[c]) <= times
        /\ \A i \in 1..Len(admitted[c]) :
              InWindow(SubSeq(admitted[c], 1, i - 1), admitted[c][i]) < times

\* A request is rejected while another call of the same client, the one
\* that took the last slot of the window, is still suspended in call_next.
C12_Witness ==
    /\ resp.op = "call" /\ resp.status = HTTP_429_TOO_MANY_REQUESTS
    /\ \E slot \in Slots :
          /\ calls[slot] # IdleCall
          /\ calls[slot].pc = "return"
          /\ calls[slot].client_ip = resp.client
          /\ Len(requests[resp.client]) = times
          /\ requests[resp.client][times] = calls[slot].current_time

\* e occurs in the log; a occurs in it before b.
Logged(log, e) == \E i \in 1..Len(log) : log[i] = e

LoggedBefore(log, a, b) ==
    \E i, j \in 1..Len(log) : i < j /\ log[i] = a /\ log[j] = b

DownstreamEvents == UNION {{Downstream(r)[i] : i \in 1..Len(Downstream(r))}
                             : r \in Routes}

\* C13: the limiter decides before anything else runs: a request answered
\* 429 has run no dependency, no store access and no endpoint, and the
\* downstream chain of a request runs only after the limit check passed and
\* its instant has been appended to the client's window.
C13_LimitDecidedFirst ==
    /\ (resp.op = "call" /\ resp.status = HTTP_429_TOO_MANY_REQUESTS) =>
          /\ ~Logged(resp.log, "call_next")
          /\ \A e \in DownstreamEvents : ~Logged(resp.log, e)
    /\ \A log \in {calls[slot].log : slot \in {x \in Slots : calls[x] # IdleCall}}
                \cup (IF resp.op = "call" THEN {resp.log} ELSE {}) :
          Logged(log, "call_next") =>
              /\ LoggedBefore(log, "check", "call_next")
              /\ LoggedBefore(log, "append", "call_next")
    /\ \A slot \in Slots :
          (calls[slot] # IdleCall /\ Logged(calls[slot].log, "call_next")) =>
              \E i \in 1..Len(admitted[calls[slot].client_ip]) :
                  admitted[calls[slot].client_ip][i] = calls[slot].current_time

C13_Witness ==
    /\ resp.op = "call" /\ resp.status = HTTP_429_TOO_MANY_REQUESTS
    /\ resp.log = <<"prune", "check">>
    /\ \E slot \in Slots :
          calls[slot] # IdleCall /\ Logged(calls[slot].log, "root")

(***************************************************************************)
(* SpecRoutes: every route of the application, requests carrying an        *)
(* X-API-Key header, an Authorization header, both or neither.             *)
(***************************************************************************)
\* GET /health: health_check().
health_check ==
    Return([status |-> "healthy", service |-> "SecuredBanking AI Service"])

\* The endpoint function of a route, called with the keyword arguments
\* FastAPI builds from its parameters.
Endpoint(route, state) ==
    CASE route = "me" -> read_users_me([state |-> state])
      [] route = "protected" ->
             require_roles({"admin"},
                           [p \in RouteParameters[route] |-> [state |-> state]])
      [] route = "root" -> root
      [] OTHER -> health_check

\* A request to a route: its dependencies are resolved first, the API key
\* one from the X-API-Key header and the guard from the Authorization
\* header, and the endpoint runs when none of them raised.
Serve(route, api_key, authorization) ==
    LET key == api_key_header(api_key)
        gate == IF "api_key_auth" \notin RouteDependencies[route]
                THEN Return(None)
                ELSE IF key.kind # "return" THEN key
                ELSE get_api_key(key.value)
        state == RequestState(route, authorization)
    IN  IF gate.kind # "return" THEN gate
        ELSE IF state.kind # "return" THEN state
        ELSE Endpoint(route, state.value)

RouteRequest ==
    /\ \E route \in DOMAIN RouteDependencies,
          api_key \in ApiKeyHeaders, authorization \in Headers :
          resp' = [op |-> "route", route |-> route, api_key |-> api_key,
                   authorization |-> authorization]
                  @@ ServiceResponse(Serve(route, api_key, authorization))
    /\ UNCHANGED <<users, now, jwtBuild, tokens>>
    /\ RegUnchanged /\ RateUnchanged

NextRoutes ==
    \/ Login
    \/ RouteRequest

SpecRoutes == Init /\ [][NextRoutes]_vars

\* C21: the API key gate guards exactly the routes marked for it and is
\* independent of token authentication: /health answers 200 "healthy" to a
\* request with neither an API key nor a token, no route requires both an
\* API key and a Bearer token, and on an API-key route a valid key is
\* sufficient without any token (and necessary whatever token comes).
C21_ApiKeyGateIndependent ==
    /\ \A route \in DOMAIN RouteDependencies :
          ~({"api_key_auth", "JWTBearer"} \subseteq RouteDependencies[route])
    /\ resp.op = "route" =>
          /\ resp.route = "health" =>
                (resp.status = 200 /\ resp.body.status = "healthy")
          /\ resp.route = "root" =>
                (resp.status = 200
                    <=> (resp.api_key # None /\ resp.api_key.key \in api_keys))
          /\ (resp.route \in {"me", "protected"}
              /\ (resp.api_key = None \/ resp.api_key.key \notin api_keys))
                => resp.status # HTTP_403_FORBIDDEN

\* / answers 200 to a configured key sent without any Authorization header.
C21_Witness ==
    /\ resp.op = "route" /\ resp.route = "root"
    /\ resp.api_key # None /\ resp.api_key.key \in api_keys
    /\ resp.authorization = None
    /\ resp.status = 200

(***************************************************************************)
(* SpecPassword: registration and login with passwords of every accepted   *)
(* length, and a stored record whose hash string is no bcrypt hash.        *)
(***************************************************************************)
\* A password of 73 characters ending in c: an upper-case letter, a
\* lower-case letter and a digit, then filler.
LongPassword(c) ==
    <<"P", "w", "0">> \o [i \in 1..69 |-> "x"] \o <<c>>

ShortPassword == <<"S", "h", "0", "r", "t">>

\* The passwords requests are made with.
PwPasswords ==
    {AlicePassword, <<"W", "r", "0", "n", "g", "P", "a", "s", "s", "!">>, LongPassword("a"), LongPassword("b"),
     ShortPassword}

UpperCase == {"S", "P", "W"}
LowerCase == {"t", "r", "n", "g", "a", "s", "w", "x", "b", "o"}
Digits == {"0", "1"}

\* UserCreate of a request body: password of 8 to 100 characters with a
\* digit, an upper-case and a lower-case letter; roles is any list of
\* strings and ["user"] when the body has no roles field.
UserCreate(body) ==
    LET password == body.password
    IN  IF \/ Len(password) < 8 \/ Len(password) > 100
           \/ \A i \in 1..Len(password) : password[i] \notin Digits
           \/ \A i \in 1..Len(password) : password[i] \notin UpperCase
           \/ \A i \in 1..Len(password) : password[i] \notin LowerCase
        THEN Exception("RequestValidationError")
        ELSE Return([username |-> body.username, email |-> body.email,
                     password |-> password,
                     roles |-> Get(body, "roles", {"user"})])

\* register_user with create_user run to its end without another request
\* in between: the response and the users collection after it. create_user
\* replaces roles by ["user"] only when it is None, which user_data.roles
\* never is.
register_user(user_data) ==
    LET existing_user ==
            find_one(ByUsernameOrEmail(user_data.username, user_data.email))
        hashed_password == get_password_hash(user_data.password)
        user == [id |-> nextId, username |-> user_data.username,
                 email |-> user_data.email,
                 hashed_password |-> hashed_password.value,
                 roles |-> user_data.roles, is_active |-> TRUE]
    IN  IF existing_user # None
        THEN [users |-> users]
             @@ ServiceResponseOf(
                    HTTPException(HTTP_400_BAD_REQUEST,
                                  "Username or email already registered"),
                    HTTP_201_CREATED)
        ELSE IF hashed_password.kind # "return"
        THEN [users |-> users,
              status |-> HTTP_500_INTERNAL_SERVER_ERROR,
              detail |-> hashed_password.kind]
        ELSE [users |-> users \cup {user}]
             @@ ServiceResponseOf(register_user_response(user),
                                  HTTP_201_CREATED)

\* A record of the collection written by another program: its
\* hashed_password is not a hash of any scheme the context knows.
LegacyDoc(id) ==
    [id |-> id, username |-> "legacy", email |-> "legacy@bank.com",
     hashed_password |-> [scheme |-> "plain", digest |-> AlicePassword],
     roles |-> {"user"}, is_active |-> TRUE]

InitPassword ==
    /\ users = {AdminDoc(1, DefaultAdminEmail, DefaultAdminPassword),
                LegacyDoc(2)}
    /\ nextId = 3
    /\ now = 0
    /\ jwtBuild = "float_le"
    /\ tokens = {}
    /\ resp = NoResp
    /\ regs = <<>>
    /\ requests = <<>>
    /\ admitted = <<>>
    /\ calls = <<>>
    /\ bcryptBuild \in BcryptBuilds

\* The request bodies of POST /register for bob: without a roles field,
\* with an empty roles list and with one role.
RegisterBodies ==
    LET base(password) == [username |-> "bob", email |-> "bob@bank.com",
                           password |-> password]
    IN  {base(password) : password \in PwPasswords}
        \cup {base(AlicePassword) @@ [roles |-> roles]
                 : roles \in {{}, {"admin"}}}

\* POST /register for bob. regs keeps the request that stored him.
PwRegister ==
    /\ \E body \in RegisterBodies :
          LET password == body.password
              user_data == UserCreate(body)
              r == IF user_data.kind # "return"
                   THEN [users |-> users, status |-> 422,
                         detail |-> user_data.kind]
                   ELSE register_user(user_data.value)
          IN  /\ users' = r.users
              /\ nextId' = IF r.users = users THEN nextId ELSE nextId + 1
              /\ regs' = IF r.users = users THEN regs
                         ELSE <<[pc |-> "done", username |-> "bob",
                                 password |-> password]>>
              /\ resp' = [op |-> "register", password |-> password,
                          body |-> body,
                          status |-> r.status, detail |-> r.detail]
    /\ UNCHANGED <<now, jwtBuild, tokens>>
    /\ RateUnchanged

\* POST /token for bob or for the legacy record.
PwLogin ==
    /\ \E identifier \in {"bob", "legacy"}, password \in PwPasswords :
          LET r == login_for_access_token(identifier, password)
          IN  /\ resp' = [op |-> "login", identifier |-> identifier,
                          password |-> password] @@ r
              /\ tokens' = Held(r)
    /\ UNCHANGED <<users, now, jwtBuild>>
    /\ RegUnchanged /\ RateUnchanged

NextPassword ==
    \/ PwRegister
    \/ PwLogin

SpecPassword == InitPassword /\ [][NextPassword]_vars

\* C22: hashing round trip: a valid password (8 to 100 characters) can be
\* registered, login then succeeds with the registered password and with
\* no other valid password.
C22_PasswordRoundTrip ==
    /\ (resp.op = "register" /\ resp.password # ShortPassword
        /\ resp.detail # "Username or email already registered")
          => \E d \in users : /\ d.username = "bob"
                              /\ PasswordVerifies(d, resp.password)
    /\ (resp.op = "login" /\ resp.identifier = "bob" /\ regs # <<>>
        /\ resp.password # ShortPassword)
          => (resp.status = 200 <=> resp.password = regs[1].password)

\* C23: password verification never raises: against a record whose stored
\* hash string is malformed or unrecognised a login is answered 401 (bad
\* credentials), not 500.
C23_MalformedHashIs401 ==
    (resp.op = "login" /\ resp.identifier = "legacy")
       => resp.status = HTTP_401_UNAUTHORIZED

(***************************************************************************)
(* SpecGuard: the guard beside the rate limiter and a changing store.      *)
(***************************************************************************)
InitGuard ==
    /\ users = {AdminDoc(1, DefaultAdminEmail, DefaultAdminPassword),
                UserDoc(2, "alice", "alice@bank.com", AlicePassword, {"user"})}
    /\ nextId = 3
    /\ now = 0
    /\ jwtBuild \in JwtBuilds
    /\ tokens = {}
    /\ resp = NoResp
    /\ regs = <<>>
    /\ requests = <<>>
    /\ admitted = [c \in Clients |-> <<>>]
    /\ calls = <<>>
    /\ bcryptBuild = "truncate"

NextGuard ==
    \/ Login
    \/ Authorize
    \/ RemoveUser
    \/ RateRequest

SpecGuard == InitGuard /\ [][NextGuard]_vars

\* C24: verifying or authorizing a token, whether it succeeds or fails,
\* writes nothing: the user records, every client's rate window and the
\* tokens the clients hold are as before, and only the request's AuthContext
\* is set. It reads nothing from the store either: a valid access token is
\* authorized by its own claims whether or not the store still holds a
\* record of its subject.
C24_GuardIsReadOnly ==
    /\ [][resp'.op = "authorize"
          => UNCHANGED <<users, nextId, requests, admitted, tokens, now>>]_vars
    /\ [](IsBearer /\ ValidAccess(resp.header.credentials)
          /\ (resp.required_roles = {}
              \/ resp.header.credentials.payload.roles
                    \cap resp.required_roles # {})
          => resp.status = 200 /\ resp.user = resp.header.credentials.payload)

\* A token is authorized after its subject left the store, while a client
\* has a rate window.
C24_Witness ==
    /\ IsBearer /\ resp.status = 200
    /\ ByUsername(resp.user.sub) = {}
    /\ \E c \in DOMAIN requests : requests[c] # <<>>

(***************************************************************************)
(* Claims about the stored rate windows (SpecRate).                        *)
(***************************************************************************)
\* The stored window of client c is time-ordered, holds only instants less
\* than one window before t, and holds at most `times` of them.
WindowKept(c, t) ==
    LET list == requests[c]
    IN  /\ \A i, j \in 1..Len(list) : i <= j => list[i] <= list[j]
        /\ \A i \in 1..Len(list) : t - list[i] < Window
        /\ Len(list) <= times

\* C25: after every rate-limiter check, for every client, the stored window
\* is a non-decreasing sequence, every stored instant t satisfies
\* now - t < window_seconds for the now of that check, and the sequence
\* holds at most max_requests instants.
C25_StoredWindowsKept ==
    resp.op = "rate" => \A c \in DOMAIN requests : WindowKept(c, now)

\* The user records the registrations stored: the documents create_user
\* builds.
Registered == {d \in users : d.username = "bob"}

\* C26: every user record a registration stores has a non-empty role set: a
\* registration without a roles field stores {"user"}, and no registration,
\* one with an empty roles list included, stores a user with no roles.
C26_RolesNeverEmpty ==
    /\ \A d \in Registered : d.roles # {}
    /\ (resp.op = "register" /\ "roles" \notin DOMAIN resp.body)
          => \A d \in Registered : d.roles = {"user"}

(***************************************************************************)
(* Claims about what a failed request tells the client (SpecRegister).     *)
(***************************************************************************)
\* C27: an unexpected store or signing failure during a registration is
\* answered with a 500 that carries a fixed message only, never the text of
\* the exception that caused it.
C27_InternalErrorsOpaque ==
    \A p \in Procs :
       (Done(p) /\ regs[p].status = HTTP_500_INTERNAL_SERVER_ERROR)
       => regs[p].detail = "Internal Server Error"

(***************************************************************************)
(* Claims on Spec: stale tokens and the order of the login checks.         *)
(***************************************************************************)
\* The roles the store holds now for the subject of an issued token.
StoredRoles(sub) == UNION {Get(d, "roles", {}) : d \in ByUsername(sub)}

\* C28: the guard decides by the roles embedded in the access token, not by
\* the store: until its expires_at an access token is authorized on its
\* embedded roles, and refused on them, whatever roles and status the store
\* holds for its subject by then; the tokens a login or refresh issues
\* carry the roles the store holds at that moment.
C28_TokenRolesDecide ==
    /\ (/\ IsBearer
        /\ Signed(resp.header.credentials)
        /\ resp.header.credentials.payload.type = "access"
        /\ now < ExpTick(resp.header.credentials))
       => LET payload == resp.header.credentials.payload
              allowed == resp.required_roles = {}
                         \/ payload.roles \cap resp.required_roles # {}
          IN  /\ allowed => (resp.status = 200 /\ resp.user = payload)
              /\ ~allowed => resp.status = HTTP_403_FORBIDDEN
    /\ Issues
       => resp.body.access_token.payload.roles
             = StoredRoles(resp.body.access_token.payload.sub)

\* A token with the admin role is authorized for an admin route after its
\* subject lost the role and was deactivated.
C28_Witness ==
    /\ IsBearer /\ resp.status = 200
    /\ resp.required_roles = {"admin"}
    /\ \E d \in ByUsername(resp.user.sub) :
          Get(d, "roles", {}) = {"user"} /\ ~Get(d, "is_active", TRUE)

\* C29: login checks the credentials before the account status: for an
\* inactive account a wrong password is answered 401 with the body an
\* unknown identifier gets, and 400 "Inactive user" is answered only when
\* the supplied password verifies for an inactive account.
C29_CredentialsBeforeStatus ==
    resp.op = "login" =>
        LET stored == StoredAs(resp.identifier)
            user == find_one(stored)
        IN  /\ stored = {}
               => (/\ resp.status = HTTP_401_UNAUTHORIZED
                   /\ resp.body = "Incorrect username or password")
            /\ (/\ stored # {}
                /\ ~Get(user, "is_active", TRUE)
                /\ ~PasswordVerifies(user, resp.password))
               => (/\ resp.status = HTTP_401_UNAUTHORIZED
                   /\ resp.body = "Incorrect username or password")
            /\ resp.status = HTTP_400_BAD_REQUEST
               => (/\ stored # {}
                   /\ ~Get(user, "is_active", TRUE)
                   /\ PasswordVerifies(user, resp.password)
                   /\ resp.body = "Inactive user")

\* A login to a deactivated account with a wrong password, answered 401.
C29_Witness ==
    /\ resp.op = "login" /\ resp.status = HTTP_401_UNAUTHORIZED
    /\ \E d \in StoredAs(resp.identifier) :
          ~Get(d, "is_active", TRUE) /\ ~PasswordVerifies(d, resp.password)

(***************************************************************************)
(* Claims about the steps of the rate limiter (SpecRate).                  *)
(***************************************************************************)
\* The instants of a stored window.
InstantsOf(list) == {list[i] : i \in 1..Len(list)}

\* new is old without some instants that lie a window or more before t.
PrunedFrom(new, old, t) ==
    /\ new = SelectSeq(old, LAMBDA x : x \in InstantsOf(new))
    /\ \A x \in InstantsOf(old) \ InstantsOf(new) : t - x >= Window

\* C30: a request the limiter rejects appends nothing: the requesting
\* client's window afterwards is its window before without stale instants;
\* and no request, admitted or rejected, changes the window of any other
\* client.
C30_RejectionAppendsNothing ==
    [][resp'.op = "rate"
       => /\ \A c \in (DOMAIN requests \cup DOMAIN requests') \ {resp'.client} :
                /\ c \in DOMAIN requests /\ c \in DOMAIN requests'
                /\ requests'[c] = requests[c]
          /\ resp'.status = HTTP_429_TOO_MANY_REQUESTS
             => /\ resp'.client \in DOMAIN requests
                /\ PrunedFrom(requests'[resp'.client], requests[resp'.client],
                              now')
                /\ admitted' = admitted]_vars

\* A rejected request while another client has a window.
C30_Witness ==
    /\ resp.op = "rate" /\ resp.status = HTTP_429_TOO_MANY_REQUESTS
    /\ \E c \in DOMAIN requests \ {resp.client} : requests[c] # <<>>

====
